---- MODULE Spec2Model ----
(***************************************************************************)
(* A model of tea.go: Program.Start (the event loop, the goroutine that    *)
(* hands over the initial command, the input feeder, the command           *)
(* dispatcher and the command tasks), Batch, Quit, Program.render with its *)
(* lock, and AltScreen and ExitAltScreen called from commands.             *)
(* Unbuffered channels are modelled as rendezvous: a send and the receive  *)
(* that takes it are one joint action of the two goroutines.               *)
(***************************************************************************)
EXTENDS Integers, Sequences, FiniteSets

\* ------------------------------------------------------------ bounds
\* Number of keys ReadKey returns before the input goes quiet.
MaxKeys == 1

\* The sample application's model is an integer below ModelMod.
ModelMod == 5

\* ------------------------------------------------------------ values
\* Msg (interface{}): a nil message, quitMsg, batchMsg, KeyMsg or an
\* application message.  One record shape so that any two are comparable.
NilMsg == [type |-> "nil", val |-> "", cmds |-> <<>>]

quitMsg == [type |-> "quit", val |-> "", cmds |-> <<>>]

batchMsg(cmds) == [type |-> "batch", val |-> "", cmds |-> cmds]

KeyMsg(k) == [type |-> "key", val |-> k, cmds |-> <<>>]

AppMsg(v) == [type |-> "app", val |-> v, cmds |-> <<>>]

\* Cmd (func() Msg): the nil Cmd, or a function returning msg.  alt tells
\* whether the function calls AltScreen() ("enter") or ExitAltScreen()
\* ("exit") before it returns, or neither ("no").
NilCmd == [nil |-> TRUE, msg |-> NilMsg, alt |-> "no"]

Fn(m) == [nil |-> FALSE, msg |-> m, alt |-> "no"]

\* Calling cmd().
Call(c) == c.msg

\* func Quit() Msg, used as a Cmd value.
Quit == Fn(quitMsg)

\* func Batch(cmds ...Cmd) Cmd
Batch(cmds) == IF Len(cmds) = 0 THEN NilCmd ELSE Fn(batchMsg(cmds))

\* ------------------------------------------------------------ sample application
\* Commands of the sample application: two that return an ordinary message,
\* one that returns nil, one that switches to the alternate screen and one
\* that leaves it.
CmdA == Fn(AppMsg("a"))

CmdB == Fn(AppMsg("b"))

CmdNone == Fn(NilMsg)

\* func() Msg { AltScreen(); return nil }
CmdAlt == [nil |-> FALSE, msg |-> NilMsg, alt |-> "enter"]

\* func() Msg { ExitAltScreen(); return nil }
CmdExitAlt == [nil |-> FALSE, msg |-> NilMsg, alt |-> "exit"]

Keys == {"k1", "k2"}

ReadErrors == {"e1", "e2"}

\* What ReadKey returns next to a non-nil error.
ZeroKey == "k0"

\* The commands p.init may return with the initial model.
InitCmds == {NilCmd, Quit, CmdAlt, Batch(<<CmdAlt, CmdExitAlt>>),
             Batch(<<CmdA, CmdB, CmdNone>>), Batch(<<NilCmd, Quit>>)}

InitModel == 0

Weight(msg) ==
    CASE msg.type = "nil" -> 0
      [] msg.val = "k1" -> 1
      [] msg.val = "k2" -> 2
      [] msg.val = "a" -> 3
      [] msg.val = "b" -> 4
      [] OTHER -> 0

\* p.update(msg, model): <<new model, command>>.  Order sensitive.  The key
\* "k1" only changes the model, the key "k2" also runs CmdA; the application
\* message "b" quits.
update(msg, m) ==
    << (2 * m + Weight(msg)) % ModelMod,
       CASE msg.type = "key" /\ msg.val = "k2" -> CmdA
         [] msg.type = "app" /\ msg.val = "b" -> Quit
         [] OTHER -> NilCmd >>

Digits == <<"0", "1", "2", "3", "4", "5", "6", "7", "8", "9">>

\* p.view(model): the frame as a sequence of characters; frames of even
\* models span two lines.
view(m) == IF m % 2 = 0 THEN <<"=", "\n", Digits[m + 1]>> ELSE <<Digits[m + 1]>>

\* ------------------------------------------------------------ strings
\* strings.Count(s, "\r\n")
RECURSIVE CountCRLF(_)
CountCRLF(s) ==
    IF Len(s) < 2 THEN 0
    ELSE IF s[1] = "\r" /\ s[2] = "\n" THEN 1 + CountCRLF(SubSeq(s, 3, Len(s)))
    ELSE CountCRLF(Tail(s))

\* strings.Replace(s, "\n", "\r\n", -1)
RECURSIVE ReplaceNL(_)
ReplaceNL(s) ==
    IF s = <<>> THEN <<>>
    ELSE IF Head(s) = "\n" THEN <<"\r", "\n">> \o ReplaceNL(Tail(s))
    ELSE <<Head(s)>> \o ReplaceNL(Tail(s))

\* ------------------------------------------------------------ state
VARIABLES
    pc,            \* where Start is
    ret,           \* Start's return value: "none" until it returns, "nil" or an error
    model,         \* Start's local model
    cmd,           \* Start's local cmd (captured by reference by the goroutine of line 96)
    batchedCmds,   \* the batch being expanded
    batchIdx,      \* index of the next command of the batch to hand over
    done,          \* whether the done channel is closed
    raw,           \* whether the terminal is in raw mode
    calls,         \* number of calls of initTerminal, init, update, render, restoreTerminal
    currentRender, \* p.currentRender
    term,          \* the terminal: last frame written, number of writes, ClearLines
                   \* calls, and of the last write the frame before it and lines cleared
    mutex,         \* p.mutex: "free", or "loop" while render holds it
    altScreen,     \* whether the terminal shows the alternate screen
    initSender,    \* the goroutine of line 96: its position, the value it sends, and
                   \* (history) the command p.init returned
    feeder,        \* the input feeder: its position, its message and error, keys read
    dispatcher,    \* the command dispatcher's position
    handed,        \* every value the dispatcher received on cmds, in order, with its
                   \* sender and whether done was closed by then
    tasks,         \* the command tasks spawned by the dispatcher
    rcvd           \* every message Start received on msgs, in order, with its sender

vars == <<pc, ret, model, cmd, batchedCmds, batchIdx, done, raw, calls, currentRender,
          term, mutex, altScreen, initSender, feeder, dispatcher, handed, tasks, rcvd>>

loopVars == <<pc, ret, model, cmd, batchedCmds, batchIdx, done, raw, calls,
              currentRender, term, mutex>>

Init ==
    /\ pc = "initTerminal"
    /\ ret = "none"
    /\ model = InitModel
    /\ cmd = NilCmd
    /\ batchedCmds = <<>>
    /\ batchIdx = 1
    /\ done = FALSE
    /\ raw = FALSE
    /\ calls = [initTerminal |-> 0, init |-> 0, update |-> 0, render |-> 0,
                restoreTerminal |-> 0]
    /\ currentRender = <<>>
    /\ term = [last |-> <<>>, writes |-> 0, clears |-> <<>>, before |-> <<>>, cleared |-> 0]
    /\ mutex = "free"
    /\ altScreen = FALSE
    /\ initSender = [pc |-> "none", val |-> NilCmd, cmd0 |-> NilCmd]
    /\ feeder = [pc |-> "none", msg |-> NilMsg, err |-> "nil", keys |-> 0]
    /\ dispatcher = "none"
    /\ handed = <<>>
    /\ tasks = <<>>
    /\ rcvd = <<>>

Bump(c, f) == [c EXCEPT ![f] = @ + 1]


\* ------------------------------------------------------------ render
\* A render that never finds the frame unchanged.
SameFrameNever(v, cur) == FALSE

\* view == p.currentRender
SameFrame(v, cur) == v = cur

\* p.currentRender after lines 162-169 of render(m), from the cache cur.
renderCache(cur, m) == IF SameFrame(view(m), cur) THEN cur ELSE view(m)

\* A render that writes the frame as the view returned it.
renderTermRaw(cur, t, m) ==
    [last |-> view(m), writes |-> t.writes + 1, clears |-> t.clears,
     before |-> t.last, cleared |-> 0]

\* The terminal after the critical section of render(m), cur being
\* p.currentRender as line 170 reads it: ClearLines(linesRendered) when
\* linesRendered > 0, then the frame with "\n" replaced by "\r\n".  before is
\* what the terminal showed, cleared the number of lines cleared (0 when
\* ClearLines was not called).
renderTerm(cur, t, m) ==
    LET linesRendered == CountCRLF(cur)
    IN  [last |-> ReplaceNL(view(m)),
         writes |-> t.writes + 1,
         clears |-> IF linesRendered > 0 THEN Append(t.clears, linesRendered)
                    ELSE t.clears,
         before |-> t.last,
         cleared |-> linesRendered]

\* render, lines 162-175: the view is compared with the cache and, when it
\* differs, cached; the lock is not held.  Start is at at and goes on to
\* lock, or to next when the frame is unchanged.
renderCheck(at, lock, next) ==
    /\ pc = at
    /\ calls' = Bump(calls, "render")
    /\ currentRender' = renderCache(currentRender, model)
    /\ pc' = IF SameFrame(view(model), currentRender) THEN next ELSE lock
    /\ UNCHANGED <<term, mutex>>

\* p.mutex.Lock()
renderLock(lock, cs) ==
    /\ pc = lock
    /\ mutex = "free"
    /\ mutex' = "loop"
    /\ pc' = cs
    /\ UNCHANGED <<calls, currentRender, term>>

\* ClearLines, io.WriteString(os.Stdout, view), p.mutex.Unlock()
renderWrite(cs, next) ==
    /\ pc = cs
    /\ term' = renderTerm(currentRender, term, model)
    /\ mutex' = "free"
    /\ pc' = next
    /\ UNCHANGED <<calls, currentRender>>

\* ------------------------------------------------------------ Start, up to the loop
\* err := initTerminal(); if err != nil { return err }; defer restoreTerminal()
InitTerminal ==
    /\ pc = "initTerminal"
    /\ calls' = Bump(calls, "initTerminal")
    /\ \E ok \in BOOLEAN :
          IF ok THEN /\ raw' = TRUE
                     /\ pc' = "init"
                     /\ ret' = ret
                ELSE /\ raw' = raw
                     /\ pc' = "returned"
                     /\ ret' = "eTerm"
    /\ UNCHANGED <<model, cmd, batchedCmds, batchIdx, done, currentRender, term, mutex, altScreen,
                   initSender, feeder, dispatcher, handed, tasks, rcvd>>

\* Whether the goroutine of line 96 is started for the initial command c.
SpawnsInitSender(c) == ~c.nil

\* model, cmd = p.init(); if cmd != nil { go func() { cmds <- cmd }() }
ProgInit ==
    /\ pc = "init"
    /\ \E c \in InitCmds :
          /\ cmd' = c
          /\ initSender' = [initSender EXCEPT
                               !.pc = IF SpawnsInitSender(c) THEN "start" ELSE @,
                               !.cmd0 = c]
    /\ model' = InitModel
    /\ calls' = Bump(calls, "init")
    /\ pc' = "render0"
    /\ UNCHANGED <<ret, batchedCmds, batchIdx, done, raw, currentRender, term, mutex, altScreen,
                   feeder, dispatcher, handed, tasks, rcvd>>

\* What render leaves alone.
renderFrame == <<ret, model, cmd, batchedCmds, batchIdx, done, raw, altScreen,
                 initSender, feeder, dispatcher, handed, tasks, rcvd>>

\* p.render(model), the initial view
RenderInitial ==
    /\ renderCheck("render0", "lock0", "goFeeder")
    /\ UNCHANGED renderFrame

RenderInitialLock ==
    /\ renderLock("lock0", "cs0")
    /\ UNCHANGED renderFrame

RenderInitialWrite ==
    /\ renderWrite("cs0", "goFeeder")
    /\ UNCHANGED renderFrame

\* go func() { for { ReadKey ... } }()
StartFeeder ==
    /\ pc = "goFeeder"
    /\ feeder' = [feeder EXCEPT !.pc = "read"]
    /\ pc' = "goDispatcher"
    /\ UNCHANGED <<ret, model, cmd, batchedCmds, batchIdx, done, raw, calls,
                   currentRender, term, mutex, altScreen, initSender, dispatcher, handed, tasks, rcvd>>

\* go func() { for { select { case <-done: ... case cmd := <-cmds: ... } } }()
StartDispatcher ==
    /\ pc = "goDispatcher"
    /\ dispatcher' = "select"
    /\ pc' = "select"
    /\ UNCHANGED <<ret, model, cmd, batchedCmds, batchIdx, done, raw, calls,
                   currentRender, term, mutex, altScreen, initSender, feeder, handed, tasks, rcvd>>

\* ------------------------------------------------------------ the goroutine of line 96
\* The send statement evaluates its operand, the captured variable cmd, when
\* the goroutine gets to run: a read that races with the loop's assignment
\* to cmd at line 153, so it yields whatever cmd holds at that moment.
InitSenderEval ==
    /\ initSender.pc = "start"
    /\ initSender' = [initSender EXCEPT !.pc = "send", !.val = cmd]
    /\ UNCHANGED <<loopVars, altScreen, feeder, dispatcher, handed, tasks, rcvd>>

\* ------------------------------------------------------------ the dispatcher
\* A dispatcher without the nil check.
SpawnsTaskAlways(c) == TRUE

\* Whether the dispatcher starts a task for the command c it received.
SpawnsTask(c) == ~c.nil

\* A dispatcher that returns after its first command.
AfterDispatchReturn == "returned"

\* Where the dispatcher is after a command: for { select { ... } } goes round.
AfterDispatch == "select"

\* case cmd := <-cmds: if cmd != nil { go func() { msgs <- cmd() }() }
\* by is the sender: "init", "update" or "batch".
DispRecv(c, by) ==
    /\ dispatcher = "select"
    /\ handed' = Append(handed, [cmd |-> c, by |-> by,
                                  at |-> IF by = "batch" THEN Len(rcvd) ELSE 0,
                                  late |-> done])
    /\ tasks' = IF SpawnsTask(c)
                THEN Append(tasks, [cmd |-> c, pc |-> "run", res |-> NilMsg,
                                    h |-> Len(handed) + 1])
                ELSE tasks
    /\ dispatcher' = AfterDispatch

\* cmds <- cmd, line 97, taken by the dispatcher
InitSenderSend ==
    /\ initSender.pc = "send"
    /\ DispRecv(initSender.val, "init")
    /\ initSender' = [initSender EXCEPT !.pc = "done"]
    /\ UNCHANGED <<loopVars, altScreen, feeder, rcvd>>

\* A dispatcher that may return at any time.
DoneReadyAlways(d) == TRUE

\* Whether case <-done is ready: receiving from done blocks until it is closed.
DoneReady(d) == d

\* case <-done: return
DispDone ==
    /\ dispatcher = "select"
    /\ DoneReady(done)
    /\ dispatcher' = "returned"
    /\ UNCHANGED <<loopVars, altScreen, initSender, feeder, handed, tasks, rcvd>>


\* ------------------------------------------------------------ the input feeder
\* msg, err := ReadKey(os.Stdin): a key, or an error next to the zero key.
\* After MaxKeys keys no further key is typed; the read may still fail.
FeederRead ==
    /\ feeder.pc = "read"
    /\ \/ /\ feeder.keys < MaxKeys
          /\ \E k \in Keys :
                feeder' = [pc |-> "sendMsg", msg |-> KeyMsg(k), err |-> "nil",
                           keys |-> feeder.keys + 1]
       \/ \E e \in ReadErrors :
             feeder' = [pc |-> "sendErr", msg |-> KeyMsg(ZeroKey), err |-> e,
                        keys |-> feeder.keys]
    /\ UNCHANGED <<loopVars, altScreen, initSender, dispatcher, handed, tasks, rcvd>>

\* Where the feeder goes once errs <- err has been taken: there is no return
\* after it, so on to msgs <- KeyMsg(msg) of line 111.
FeederAfterErr == "sendMsg"

\* ------------------------------------------------------------ the command tasks
\* The operand of msgs <- cmd() is evaluated: the command runs.  A command
\* that calls AltScreen() or ExitAltScreen() enters the termenv function
\* first.
TaskRun(t) ==
    /\ tasks[t].pc = "run"
    /\ tasks' = [tasks EXCEPT ![t] =
                    IF tasks[t].cmd.alt = "enter" THEN [@ EXCEPT !.pc = "alt"]
                    ELSE IF tasks[t].cmd.alt = "exit" THEN [@ EXCEPT !.pc = "exitAlt"]
                    ELSE [@ EXCEPT !.pc = "send", !.res = Call(tasks[t].cmd)]]
    /\ UNCHANGED <<loopVars, altScreen, initSender, feeder, dispatcher, handed, rcvd>>

\* An AltScreen that takes p.mutex.
AltScreenLocked(m) == m = "free"

\* Whether AltScreen() may write to the terminal when p.mutex is m: it does
\* not touch the lock.
AltScreenMayWrite(m) == TRUE

\* func AltScreen() { termenv.AltScreen() }: the escape sequence has been
\* written, the command returns its message.
TaskAltScreen(t) ==
    /\ tasks[t].pc = "alt"
    /\ AltScreenMayWrite(mutex)
    /\ altScreen' = TRUE
    /\ tasks' = [tasks EXCEPT ![t] = [@ EXCEPT !.pc = "send", !.res = Call(tasks[t].cmd)]]
    /\ UNCHANGED <<loopVars, initSender, feeder, dispatcher, handed, rcvd>>

\* Whether ExitAltScreen() may write to the terminal when p.mutex is m: it
\* does not touch the lock either.
ExitAltScreenMayWrite(m) == TRUE

\* func ExitAltScreen() { termenv.ExitAltScreen() }: the escape sequence has
\* been written, the terminal is back on the main screen, the command
\* returns its message.
TaskExitAltScreen(t) ==
    /\ tasks[t].pc = "exitAlt"
    /\ ExitAltScreenMayWrite(mutex)
    /\ altScreen' = FALSE
    /\ tasks' = [tasks EXCEPT ![t] = [@ EXCEPT !.pc = "send", !.res = Call(tasks[t].cmd)]]
    /\ UNCHANGED <<loopVars, initSender, feeder, dispatcher, handed, rcvd>>

\* A task that sends its result again.
AfterDeliveryAgain == "send"

\* Where a task is once its send on msgs has been taken: the goroutine ends.
AfterDelivery == "done"

\* ------------------------------------------------------------ the loop
\* A loop that does not recognise quitMsg.
IsQuitNever(m) == FALSE

\* msg.(quitMsg)
IsQuit(m) == m.type = "quit"

\* msg.(batchMsg)
IsBatch(m) == m.type = "batch"

\* A loop that swallows the error.
ErrReturnNil(e) == "nil"

\* the value returned on case err := <-errs
ErrReturn(e) == e

\* case err := <-errs: close(done); return err
LoopRecvErr ==
    /\ pc = "select"
    /\ feeder.pc = "sendErr"
    /\ feeder' = [feeder EXCEPT !.pc = FeederAfterErr]
    /\ done' = TRUE
    /\ ret' = ErrReturn(feeder.err)
    /\ pc' = "returning"
    /\ UNCHANGED <<model, cmd, batchedCmds, batchIdx, raw, calls, currentRender, term, mutex, altScreen,
                   initSender, dispatcher, handed, tasks, rcvd>>

\* A loop that drops the model update returns.
nextModelStale(m, cur) == cur

\* model, cmd = p.update(msg, model): the model and the command assigned.
nextModel(m, cur) == update(m, cur)[1]

nextCmd(m, cur) == update(m, cur)[2]

\* The body of case msg := <-msgs up to the first channel operation, for the
\* message m taken from sender from (0 the feeder, t > 0 the task t).
Handle(m, from) ==
    /\ rcvd' = Append(rcvd, [from |-> from, msg |-> m])
    /\ IF IsQuit(m)
       THEN /\ done' = TRUE
            /\ ret' = "nil"
            /\ pc' = "returning"
            /\ UNCHANGED <<model, cmd, batchedCmds, batchIdx, calls>>
       ELSE IF IsBatch(m)
       THEN /\ batchedCmds' = m.cmds
            /\ batchIdx' = 1
            /\ pc' = IF Len(m.cmds) = 0 THEN "select" ELSE "batch"
            /\ UNCHANGED <<model, cmd, done, ret, calls>>
       ELSE /\ model' = nextModel(m, model)
            /\ cmd' = nextCmd(m, model)
            /\ calls' = Bump(calls, "update")
            /\ pc' = "sendCmd"
            /\ UNCHANGED <<batchedCmds, batchIdx, done, ret>>
    /\ UNCHANGED <<raw, currentRender, term, mutex, altScreen>>

\* case msg := <-msgs, taking the feeder's msgs <- KeyMsg(msg)
LoopRecvKey ==
    /\ pc = "select"
    /\ feeder.pc = "sendMsg"
    /\ Handle(feeder.msg, 0)
    /\ feeder' = [feeder EXCEPT !.pc = "read"]
    /\ UNCHANGED <<initSender, dispatcher, handed, tasks>>

\* case msg := <-msgs, taking the task t's msgs <- cmd()
LoopRecvResult(t) ==
    /\ pc = "select"
    /\ tasks[t].pc = "send"
    /\ Handle(tasks[t].res, t)
    /\ tasks' = [tasks EXCEPT ![t] = [@ EXCEPT !.pc = AfterDelivery]]
    /\ UNCHANGED <<initSender, feeder, dispatcher, handed>>

\* A range over the batch from its last command to its first.
rangeElemReversed(cmds, i) == cmds[Len(cmds) + 1 - i]

\* The command of the i-th iteration of for _, cmd := range batchedCmds.
rangeElem(cmds, i) == cmds[i]

\* for _, cmd := range batchedCmds { cmds <- cmd }: one iteration, taken by
\* the dispatcher; continue after the last.
LoopSendBatch ==
    /\ pc = "batch"
    /\ DispRecv(rangeElem(batchedCmds, batchIdx), "batch")
    /\ batchIdx' = batchIdx + 1
    /\ pc' = IF batchIdx = Len(batchedCmds) THEN "select" ELSE "batch"
    /\ UNCHANGED <<ret, model, cmd, batchedCmds, done, raw, calls, currentRender, term, mutex, altScreen,
                   initSender, feeder, rcvd>>

\* cmds <- cmd, line 154, taken by the dispatcher
LoopSendCmd ==
    /\ pc = "sendCmd"
    /\ DispRecv(cmd, "update")
    /\ pc' = "render"
    /\ UNCHANGED <<ret, model, cmd, batchedCmds, batchIdx, done, raw, calls,
                   currentRender, term, mutex, altScreen, initSender, feeder, rcvd>>

\* p.render(model), line 155
LoopRender ==
    /\ renderCheck("render", "lock", "select")
    /\ UNCHANGED renderFrame

LoopRenderLock ==
    /\ renderLock("lock", "cs")
    /\ UNCHANGED renderFrame

LoopRenderWrite ==
    /\ renderWrite("cs", "select")
    /\ UNCHANGED renderFrame

\* A Start that does not defer restoreTerminal.
deferredNone(c) == c

\* The calls made once the deferred restoreTerminal() has run.
deferred(c) == Bump(c, "restoreTerminal")

\* The deferred restoreTerminal() runs and Start returns.
Return ==
    /\ pc = "returning"
    /\ calls' = deferred(calls)
    /\ raw' = FALSE
    /\ pc' = "returned"
    /\ UNCHANGED <<ret, model, cmd, batchedCmds, batchIdx, done, currentRender, term, mutex, altScreen,
                   initSender, feeder, dispatcher, handed, tasks, rcvd>>

TaskIds == 1..Len(tasks)

Next ==
    \/ InitTerminal
    \/ ProgInit
    \/ RenderInitial
    \/ RenderInitialLock
    \/ RenderInitialWrite
    \/ StartFeeder
    \/ StartDispatcher
    \/ InitSenderEval
    \/ InitSenderSend
    \/ DispDone
    \/ FeederRead
    \/ \E t \in TaskIds : TaskRun(t)
    \/ \E t \in TaskIds : TaskAltScreen(t)
    \/ \E t \in TaskIds : TaskExitAltScreen(t)
    \/ LoopRecvErr
    \/ LoopRecvKey
    \/ \E t \in TaskIds : LoopRecvResult(t)
    \/ LoopSendBatch
    \/ LoopSendCmd
    \/ LoopRender
    \/ LoopRenderLock
    \/ LoopRenderWrite
    \/ Return

Spec == Init /\ [][Next]_vars

\* ------------------------------------------------------------ fairness
\* The Go scheduler runs every runnable goroutine (weak fairness of the
\* goroutines' own steps) and select picks at random among its ready cases,
\* as the runtime does among the senders blocked on one channel (strong
\* fairness of every channel operation).  Nothing makes a key arrive.
LoopStep ==
    \/ InitTerminal
    \/ ProgInit
    \/ RenderInitial
    \/ RenderInitialLock
    \/ RenderInitialWrite
    \/ StartFeeder
    \/ StartDispatcher
    \/ LoopRender
    \/ LoopRenderLock
    \/ LoopRenderWrite
    \/ Return

Fairness ==
    /\ WF_vars(LoopStep)
    /\ WF_vars(InitSenderEval)
    /\ WF_vars(\E t \in TaskIds : TaskRun(t))
    /\ WF_vars(\E t \in TaskIds : TaskAltScreen(t))
    /\ WF_vars(\E t \in TaskIds : TaskExitAltScreen(t))
    /\ WF_vars(DispDone)
    /\ SF_vars(InitSenderSend)
    /\ SF_vars(LoopSendBatch)
    /\ SF_vars(LoopSendCmd)
    /\ SF_vars(LoopRecvErr)
    /\ SF_vars(LoopRecvKey)
    /\ SF_vars(\E t \in TaskIds : LoopRecvResult(t))

FairSpec == Spec /\ Fairness

\* ------------------------------------------------------------ what the claims speak of
\* The loop has taken a quit message from msgs.
QuitReceived == \E i \in 1..Len(rcvd) : rcvd[i].msg.type = "quit"

\* The ordinary messages (neither quit nor batch) taken from msgs, in order.
OrdinaryRcvd == SelectSeq(rcvd, LAMBDA r : r.msg.type \notin {"quit", "batch"})

\* The loop is past its select for good.
Terminating == pc \in {"returning", "returned"}

\* The entries of rcvd that came from the task t.
From(t) == SelectSeq(rcvd, LAMBDA r : r.from = t)

\* The positions in rcvd of the batch messages.
BatchPositions == {p \in 1..Len(rcvd) : rcvd[p].msg.type = "batch"}

\* What the dispatcher received from the expansion of the batch at position p.
HandedFor(p) == SelectSeq(handed, LAMBDA h : h.by = "batch" /\ h.at = p)

\* The tasks started for the commands of the batch at position p.
TasksFor(p) ==
    {t \in TaskIds : handed[tasks[t].h].by = "batch" /\ handed[tasks[t].h].at = p}

\* C1: once the loop has received a quit message Start is returning nil, and
\* from the step that receives it on, update and render are not invoked and
\* the model is not touched, whatever commands are still in flight.
C1_QuitTerminates ==
    /\ [](QuitReceived => Terminating /\ ret = "nil")
    /\ [][QuitReceived' => /\ calls'.update = calls.update
                           /\ calls'.render = calls.render
                           /\ model' = model]_vars

\* Start has returned on a quit after at least one transition, with a command
\* task still running or blocked on its send.
C1_Witness ==
    /\ pc = "returned"
    /\ QuitReceived
    /\ calls.update > 0
    /\ \E t \in TaskIds : tasks[t].pc # "done"

\* A command that yields the quit message has just been scheduled: returned
\* by init with the goroutine of line 96 started for it, returned by a
\* transition and about to be handed over, or next in the batch being expanded.
QuitScheduled ==
    \/ pc = "render0" /\ cmd = Quit /\ initSender.pc # "none"
    \/ pc = "sendCmd" /\ cmd = Quit
    \/ pc = "batch" /\ batchedCmds[batchIdx] = Quit

\* The same, without the initial command.
QuitScheduledByLoop ==
    \/ pc = "sendCmd" /\ cmd = Quit
    \/ pc = "batch" /\ batchedCmds[batchIdx] = Quit

ReadFailed == feeder.err # "nil"

\* C2: under fair scheduling, unless a read fails, a scheduled command that
\* yields quit (initial, returned by a transition, or in a batch) leads to
\* Start returning nil.
C2_QuitLiveness ==
    <>ReadFailed \/ (QuitScheduled ~> (pc = "returned" /\ ret = "nil"))

\* C2, for the commands the loop itself hands to the dispatcher.
C2_QuitLivenessByLoop ==
    <>ReadFailed \/ (QuitScheduledByLoop ~> (pc = "returned" /\ ret = "nil"))

\* C3: if Start fixes its return value while a failed read's error is waiting
\* on errs, the value is that error; and once Start has returned after a
\* failed read that came before its last message, it returned that error.
C3_ReadErrorAlwaysReturned ==
    [][(feeder.pc = "sendErr" /\ ret = "none" /\ ret' # "none") => ret' = feeder.err]_vars

\* C3 as amended: a failed read makes Start terminate under fair scheduling;
\* Start returns the error of the failed read, taken from errs exactly when
\* it returns it, unless the loop takes a quit message first, and then it
\* returns nil.  It returns no other error once raw mode is entered.
C3_ReadErrorOrQuit ==
    /\ [](ret \in ReadErrors => /\ ret = feeder.err
                               /\ feeder.pc = "sendMsg"
                               /\ ~QuitReceived)
    /\ []((Terminating /\ ret \notin ReadErrors \cup {"eTerm"})
            => (ret = "nil" /\ QuitReceived))
    /\ [][(feeder.pc = "sendErr" /\ ret = "none" /\ ret' # "none")
            => (ret' = feeder.err \/ (ret' = "nil" /\ QuitReceived'))]_vars
    /\ (ReadFailed ~> pc = "returned")

\* Start has returned the error of a read that failed after a key was
\* processed, while a command result was waiting on msgs.
C3_Witness ==
    /\ pc = "returned"
    /\ ret \in ReadErrors
    /\ ret = feeder.err
    /\ calls.update > 0
    /\ \E t \in TaskIds : tasks[t].pc = "send"

\* Start has returned nil on a quit message although a failed read's error is
\* still waiting on errs.
C3_QuitWins == pc = "returned" /\ ret = "nil" /\ feeder.pc = "sendErr"

\* C4: a failed initTerminal makes Start return that error with no call of
\* init, update, render or restoreTerminal; after a successful one
\* restoreTerminal has run exactly once when Start has returned, on the quit
\* path and on the error path, and not at all before.
C4_RawModeScoped ==
    /\ ret = "eTerm" => /\ pc = "returned"
                        /\ calls.init = 0
                        /\ calls.update = 0
                        /\ calls.render = 0
                        /\ calls.restoreTerminal = 0
    /\ (pc = "returned" /\ ret # "eTerm") => (calls.restoreTerminal = 1 /\ ~raw)
    /\ pc # "returned" => calls.restoreTerminal = 0
    /\ (pc \notin {"initTerminal", "returned"}) => raw

\* Start has returned a read error after a transition, the terminal restored.
C4_Witness ==
    /\ pc = "returned"
    /\ ret \in ReadErrors
    /\ calls.update > 0
    /\ calls.restoreTerminal = 1

\* C5: the commands of a received batch reach the dispatcher once each, in
\* list order, all of them before the loop takes another message; update and
\* render run once per ordinary message, so not for the batch message.
C5_BatchHandover ==
    /\ \A p \in BatchPositions :
          LET L == rcvd[p].msg.cmds
              H == HandedFor(p)
              n == IF pc = "batch" /\ p = Len(rcvd) THEN batchIdx - 1 ELSE Len(L)
          IN  /\ Len(H) = n
              /\ \A i \in 1..n : H[i].cmd = L[i]
    /\ calls.update = Len(OrdinaryRcvd)
    /\ calls.render = (IF calls.init = 1 /\ pc # "render0" THEN 1 ELSE 0)
                      + Len(OrdinaryRcvd)
                      - (IF pc \in {"sendCmd", "render"} THEN 1 ELSE 0)

\* A batch of three commands has been expanded and the loop has gone on to
\* take a later message.
C5_Witness ==
    \E p \in BatchPositions :
        /\ Len(rcvd[p].msg.cmds) = 3
        /\ Len(HandedFor(p)) = 3
        /\ Len(rcvd) > p

\* C6: of the tasks started for a batch, the loop receives from each at most
\* one message, the result of its command, and never for an absent (nil)
\* result; once a task with a result is finished the loop has received it.
C6_BatchResults ==
    \A p \in BatchPositions : \A t \in TasksFor(p) :
        /\ Len(From(t)) <= 1
        /\ \A i \in 1..Len(From(t)) :
              /\ From(t)[i].msg = Call(tasks[t].cmd)
              /\ From(t)[i].msg.type # "nil"
        /\ (tasks[t].pc = "done" /\ Call(tasks[t].cmd).type # "nil") => Len(From(t)) = 1

\* C6 with the absent results delivered as nil messages, as the tasks do.
C6_BatchResultsWithNil ==
    \A p \in BatchPositions : \A t \in TasksFor(p) :
        /\ Len(From(t)) <= 1
        /\ \A i \in 1..Len(From(t)) : From(t)[i].msg = Call(tasks[t].cmd)
        /\ tasks[t].pc = "done" => Len(From(t)) = 1

RECURSIVE FoldUpdate(_, _)
FoldUpdate(m, s) ==
    IF s = <<>> THEN m ELSE FoldUpdate(update(s[1].msg, m)[1], Tail(s))

\* C7: whenever the loop waits in its select, the model is the left fold of
\* update over the ordinary messages received so far, in the order received,
\* starting from the model init returned.
C7_ModelIsFold == pc = "select" => model = FoldUpdate(InitModel, OrdinaryRcvd)

\* The loop waits after at least three ordinary messages, from the feeder
\* and from commands.
C7_Witness ==
    /\ pc = "select"
    /\ Len(OrdinaryRcvd) >= 3
    /\ \E i, j \in 1..Len(OrdinaryRcvd) :
          OrdinaryRcvd[i].from = 0 /\ OrdinaryRcvd[j].from > 0

\* init returned a nil command: the goroutine of line 96 was never started.
NilInitialCmd == calls.init = 1 /\ initSender.pc = "none"

\* No task runs a nil command, each task runs a command the dispatcher
\* received, and every message from a command comes from such a task.
NoNilExecuted ==
    /\ \A t \in TaskIds :
          /\ ~tasks[t].cmd.nil
          /\ tasks[t].h \in 1..Len(handed)
          /\ handed[tasks[t].h].cmd = tasks[t].cmd
    /\ Len(tasks) = Len(SelectSeq(handed, LAMBDA h : ~h.cmd.nil))
    /\ \A i \in 1..Len(rcvd) : rcvd[i].from # 0 => rcvd[i].from \in TaskIds

\* C8: a nil command is never handed to the cmds channel, gets no task and
\* puts no message on msgs.
C8_NilNeverHanded ==
    /\ \A i \in 1..Len(handed) : ~handed[i].cmd.nil
    /\ NoNilExecuted

\* C8 as amended: a nil initial command is not handed to the cmds channel; a
\* nil command returned by a transition or found in a batch is handed to it
\* and dropped by the dispatcher; in every case no task is started for a nil
\* command and no message appears on msgs on its behalf.
C8_NilNeverExecuted ==
    /\ NilInitialCmd => \A i \in 1..Len(handed) : handed[i].by # "init"
    /\ NoNilExecuted

\* The dispatcher has received a nil command from a transition and one from
\* a batch, and started a task for neither.
C8_Witness ==
    /\ \E i \in 1..Len(handed) : handed[i].cmd.nil /\ handed[i].by = "update"
    /\ \E i \in 1..Len(handed) : handed[i].cmd.nil /\ handed[i].by = "batch"
    /\ Len(tasks) < Len(handed)
    /\ \A t \in TaskIds : tasks[t].pc = "done"

\* C9: no message the loop receives from a command task is nil: a task whose
\* command returned nil ends without sending.
C9_NoNilFromCommand ==
    \A i \in 1..Len(rcvd) : rcvd[i].from # 0 => rcvd[i].msg.type # "nil"

\* Number of messages the loop received from the task t.
Deliveries(t) == Len(From(t))

\* C10: when Start has returned, the result of every command that was
\* executed has been delivered exactly once.
C10_DeliveredExactlyOnce ==
    /\ \A t \in TaskIds : Deliveries(t) <= 1
    /\ pc = "returned" => \A t \in TaskIds : tasks[t].pc # "run" => Deliveries(t) = 1

\* C10 as amended: each command handed to the dispatcher gets at most one
\* task, which runs it once; its result, nil included, is delivered at most
\* once, and exactly once when the loop takes it before terminating; after
\* termination nothing more is taken from msgs, so a result still to be sent
\* then stays undelivered.
C10_DeliveredAtMostOnce ==
    /\ [](\A t \in TaskIds :
            /\ Deliveries(t) <= 1
            /\ Deliveries(t) = 1 <=> tasks[t].pc = "done"
            /\ \A i \in 1..Len(From(t)) : From(t)[i].msg = Call(tasks[t].cmd)
            /\ \A u \in TaskIds : tasks[u].h = tasks[t].h => u = t)
    /\ [][Terminating => (rcvd' = rcvd /\ \A t \in TaskIds : tasks'[t].pc # "done"
                                                    \/ tasks[t].pc = "done")]_vars

\* Start has returned while one command's result was delivered and another
\* command's result is still waiting to be sent.
C10_Witness ==
    /\ pc = "returned"
    /\ \E t \in TaskIds : tasks[t].pc = "done"
    /\ \E t \in TaskIds : tasks[t].pc = "send"

\* ------------------------------------------------------------ rendering
\* A call of render starts.
RenderCalled == calls'.render = calls.render + 1

\* C11: a render whose view equals the cached frame clears nothing, writes
\* nothing, does not take the lock, leaves the cache as it is and is over in
\* that step; so no write ever puts on the terminal the frame that was
\* already there (two renders of one frame write it once).
C11_RenderIdempotent ==
    /\ [][RenderCalled /\ view(model) = currentRender
            => /\ pc' \in {"goFeeder", "select"}
               /\ UNCHANGED <<currentRender, term, mutex>>]_vars
    /\ [](term.writes > 0 => term.last # term.before)

\* Two renders have completed, of the same frame, with one write.
C11_Witness ==
    /\ pc = "select"
    /\ calls.render = 2
    /\ term.writes = 1
    /\ term.last = ReplaceNL(view(model))

\* The loop is waiting for its next message, or Start is returning after
\* having run the loop.
LoopAtRest == pc = "select" \/ (Terminating /\ ret # "eTerm")

\* C12: whenever the loop waits for its next message, and when Start returns
\* from the loop, the cached frame is the view of the current model and the
\* last string written to the terminal is that frame with every "\n" replaced
\* by "\r\n".
C12_FrameIsCurrent ==
    LoopAtRest => /\ currentRender = view(model)
                  /\ term.last = ReplaceNL(view(model))

\* Start has returned nil after two transitions that left a two-line frame
\* of a model other than the initial one.
C12_Witness ==
    /\ pc = "returned"
    /\ ret = "nil"
    /\ calls.update >= 2
    /\ model # InitModel
    /\ term.last # view(model)
    /\ term.writes >= 2

\* The number of line breaks of a frame: strings.Count(s, "\n").
RECURSIVE LineBreaks(_)
LineBreaks(s) ==
    IF s = <<>> THEN 0
    ELSE (IF Head(s) = "\n" THEN 1 ELSE 0) + LineBreaks(Tail(s))

\* C13: when render has written a changed frame, the number of lines it had
\* cleared is the number of line breaks of the frame the terminal showed
\* before (0, ClearLines not called, exactly when that frame had none).
C13_ClearsPreviousFrame ==
    term.writes > 0 => term.cleared = LineBreaks(term.before)

\* ------------------------------------------------------------ the lock
\* A command task writes an alternate-screen escape sequence, entering or
\* leaving, in this step.
AltScreenWritten ==
    \E t \in TaskIds : tasks[t].pc \in {"alt", "exitAlt"} /\ tasks'[t].pc = "send"

\* C14: no command task writes an alternate-screen toggle to the terminal
\* while render is between p.mutex.Lock() and p.mutex.Unlock().
C14_TerminalSerialized == [][AltScreenWritten => mutex # "loop"]_vars

\* C15: render reads and writes p.currentRender only while it holds p.mutex.
C15_CacheGuarded ==
    [][RenderCalled \/ currentRender' # currentRender => mutex = "loop"]_vars

\* ------------------------------------------------------------ the feeder after a failed read
\* C16: once a read has failed the feeder only delivers the error: it is never
\* found offering a key message on msgs, nor reading again.
C16_FeederStopsAfterError ==
    ReadFailed => feeder.pc \notin {"sendMsg", "read"}

\* ------------------------------------------------------------ the dispatcher and done
\* The commands the dispatcher received with done already closed.
LateHanded == {i \in 1..Len(handed) : handed[i].late}

\* C17: once done is closed the dispatcher receives nothing more from cmds
\* and starts no further task.
C17_NothingAfterDone ==
    [][done => handed' = handed /\ Len(tasks') = Len(tasks)]_vars

\* C17 as amended: the dispatcher returns only when done is closed, and once
\* it has returned nothing is received from cmds and no task is started; with
\* done closed and the dispatcher still in its select, it can receive at most
\* one more command, and only from the goroutine of line 96.
C17_NothingAfterDispatcherReturned ==
    /\ [](dispatcher = "returned" => done)
    /\ [][dispatcher = "returned" => handed' = handed /\ Len(tasks') = Len(tasks)]_vars
    /\ [](\A i \in LateHanded : handed[i].by = "init")
    /\ [](Cardinality(LateHanded) <= 1)

\* A command was received with done closed, a task was started for it and
\* has run; the dispatcher has returned since.
C17_Witness ==
    /\ dispatcher = "returned"
    /\ \E t \in TaskIds : tasks[t].h \in LateHanded /\ tasks[t].pc = "send"

\* ------------------------------------------------------------ the initial command
\* What the dispatcher received from the goroutine of line 96.
HandedByInit == {i \in 1..Len(handed) : handed[i].by = "init"}

\* The initial command was received by the dispatcher and its task has run.
InitialCmdExecuted ==
    \E t \in TaskIds : /\ tasks[t].h \in HandedByInit
                       /\ tasks[t].cmd = initSender.cmd0
                       /\ tasks[t].pc # "run"

\* C18: a non-nil initial command is what the goroutine of line 96 hands to
\* the dispatcher, once, and in every fair execution it is eventually
\* received and executed, however soon the loop terminates.
C18_InitialCmdScheduled ==
    /\ [](\A i \in HandedByInit : handed[i].cmd = initSender.cmd0)
    /\ [](Cardinality(HandedByInit) <= 1)
    /\ (initSender.pc = "start" ~> InitialCmdExecuted)

\* ------------------------------------------------------------ batch expansion and termination
\* C19: a run that expands a batch and closes done passes through a state in
\* which done is closed while the loop is still handing over the commands of
\* the batch and the dispatcher has returned.
C19_BatchStuckAfterDone ==
    <>(pc = "batch") /\ <>done => <>(done /\ pc = "batch" /\ dispatcher = "returned")

\* C19 as amended: no such state exists.  done is closed only by the loop,
\* in the step that takes an error or a quit message from its select; while
\* the loop hands over the commands of a batch done is open and the
\* dispatcher is in its select.
C19_BatchNeverMeetsDone ==
    /\ [](pc = "batch" => ~done /\ dispatcher = "select")
    /\ [][~done /\ done' => pc = "select" /\ pc' = "returning"]_vars

\* Start has returned after a batch of two or more commands was handed over
\* whole, every command with done still open; the dispatcher has returned.
C19_Witness ==
    /\ pc = "returned"
    /\ done
    /\ dispatcher = "returned"
    /\ Len(batchedCmds) >= 2
    /\ Cardinality({i \in 1..Len(handed) : handed[i].by = "batch"}) = Len(batchedCmds)
    /\ \A i \in 1..Len(handed) : handed[i].by = "batch" => ~handed[i].late

\* ------------------------------------------------------------ the loop's hand-overs
\* The loop is blocked on a send to cmds: an element of a batch, or the
\* command of a transition.
HandingOver == pc \in {"batch", "sendCmd"}

\* C20: while the loop hands a command to the dispatcher done is open and the
\* dispatcher is in its select, done being closed only when the loop is
\* returning; and under fair scheduling every such hand-over completes and
\* the loop gets back to its select.
C20_HandoverCompletes ==
    /\ [](HandingOver => ~done /\ dispatcher = "select")
    /\ [](done => Terminating)
    /\ (HandingOver ~> pc = "select")

\* The loop is back in its select after handing over a whole batch and then
\* the nil command of a transition.
C20_Witness ==
    /\ pc = "select"
    /\ ~done
    /\ \E i, j \in 1..Len(handed) :
          /\ i < j
          /\ handed[i].by = "batch"
          /\ handed[j].by = "update"
          /\ handed[j].cmd.nil

====
